---------------------------- MODULE Spec2Model ----------------------------
(***************************************************************************)
(* A model of cooklatex: the LaTeX document builder (src/src/latex.rs),    *)
(* the recipe renderer and ingredient aggregator (src/src/recipe.rs) and   *)
(* the top-level driver (src/src/main.rs).                                 *)
(*                                                                         *)
(* Text is a sequence of tokens.  A character of user text is a token of   *)
(* one character; the literal pieces of a format string (a command name,   *)
(* " mins", ".tex", the placeholder of main.tex) are tokens of their own.  *)
(***************************************************************************)
EXTENDS Integers, Sequences, FiniteSets

VARIABLES
    content,      \* builder id -> LatexBuilder.content (a sequence of lines)
    ret,          \* the value returned by the last call of build()
    last,         \* the last LatexBuilder call, with its arguments
    minutes,      \* the argument of RecipeTime::format_time
    timeText,     \* what format_time returned, None before the call
    recipe,       \* the Recipe handed to the renderer
    grouped,      \* what get_ingredients_by_section returned
    listing,      \* what ingredient_list returned
    created,      \* what create_recipe returned
    phase,        \* how far the rendering of recipe has come
    pc,           \* where main stands
    collections,  \* cli.collections
    collIdx,      \* the number of collections main has dealt with
    files,        \* the listing of the collection being transpiled
    fileIdx,      \* the number of its files transpile_collection has dealt with
    resultFiles,  \* result_files of transpile_collection
    mainLatex,    \* the LatexBuilder latex of main
    lastFile,     \* what the file dealt with last was like, and its result
    warning,      \* what the last step printed on stderr
    results,      \* Ok or Err of every file of the collection dealt with
    returns,      \* what transpile_collection returned, per collection
    template,     \* what replace_in_main_tex read from main.tex
    mainTex,      \* what replace_in_main_tex wrote to main.tex
    mainResult    \* what replace_in_main_tex returned

renderVars == <<recipe, grouped, listing, created, phase>>
builderVars == <<content, ret, last>>
timeVars == <<minutes, timeText>>
mainVars == <<pc, collections, collIdx, files, fileIdx, resultFiles,
              mainLatex, lastFile, warning, results, returns, template, mainTex,
              mainResult>>

vars == <<content, ret, last, minutes, timeText, recipe, grouped, listing,
          created, phase, pc, collections, collIdx, files, fileIdx,
          resultFiles, mainLatex, lastFile, warning, results, returns, template,
          mainTex, mainResult>>

\* Option<T>: a sequence of no element or of one.
None == <<>>
Some(x) == <<x>>
IsSome(o) == o # <<>>
Unwrap(o) == o[1]

(***************************************************************************)
(* Bounds of the model.                                                    *)
(***************************************************************************)
MaxLines == 5
MaxMinutes == 130
MaxIngredients == 2
MaxMentions == 3
MaxCollections == 2
MaxFiles == 2

(***************************************************************************)
(* Text helpers.                                                           *)
(***************************************************************************)
RECURSIVE Concat(_)
Concat(seqs) ==
    IF seqs = <<>> THEN <<>> ELSE Head(seqs) \o Concat(Tail(seqs))

RECURSIVE Join(_, _)
Join(lines, sep) ==
    IF lines = <<>> THEN <<>>
    ELSE IF Len(lines) = 1 THEN Head(lines)
    ELSE Head(lines) \o <<sep>> \o Join(Tail(lines), sep)

\* str::replace with a pattern of one token: every occurrence is replaced.
RECURSIVE Replace(_, _, _)
Replace(text, from, to) ==
    IF text = <<>> THEN <<>>
    ELSE (IF Head(text) = from THEN to ELSE <<Head(text)>>)
             \o Replace(Tail(text), from, to)

DigitChar(d) == <<"0", "1", "2", "3", "4", "5", "6", "7", "8", "9">>[d + 1]

\* Display of an unsigned integer: its decimal digits.
RECURSIVE NumToString(_)
NumToString(n) ==
    IF n < 10 THEN <<DigitChar(n)>>
    ELSE NumToString(n \div 10) \o <<DigitChar(n % 10)>>

(***************************************************************************)
(* latex.rs: Arg and LatexBuilder.                                         *)
(***************************************************************************)
ArgNew(value, optional) == [value |-> value, optional |-> optional]
ArgOptional(value) == ArgNew(value, TRUE)
ArgRequired(value) == ArgNew(value, FALSE)

FormatArg(arg) ==
    IF arg.optional THEN <<"[">> \o arg.value \o <<"]">>
    ELSE <<"{">> \o arg.value \o <<"}">>

FormatArgs(args) == Concat([i \in 1..Len(args) |-> FormatArg(args[i])])

BuilderNew == <<>>

AddCommand(self, command, args) ==
    Append(self, <<"\\", command>> \o FormatArgs(args))

AddSimpleCommand(self, command, arg) ==
    AddCommand(self, command, <<ArgRequired(arg)>>)

AddBuilder(self, other) == self \o other

\* add_env without its closing line.
AddEnvNoEnd(self, env, body) ==
    AddBuilder(AddSimpleCommand(self, "begin", env), body)

AddEnv(self, env, body) ==
    AddSimpleCommand(AddBuilder(AddSimpleCommand(self, "begin", env), body),
                     "end", env)

Build(self) == Join(self, "\n")

(***************************************************************************)
(* RecipeTime::format_time.                                                *)
(***************************************************************************)
\* format_time with the hour boundary at m <= 60.
FormatTimeOffByOne(m) ==
    IF m <= 60 THEN NumToString(m) \o <<" mins">>
    ELSE IF m % 60 = 0 THEN NumToString(m \div 60) \o <<" hrs">>
    ELSE NumToString(m \div 60) \o <<" hrs ">> \o NumToString(m % 60) \o <<" mins">>

FormatTime(m) ==
    IF m < 60 THEN NumToString(m) \o <<" mins">>
    ELSE LET hours == m \div 60
             mins == m % 60
         IN IF mins = 0 THEN NumToString(hours) \o <<" hrs">>
            ELSE NumToString(hours) \o <<" hrs ">> \o NumToString(mins) \o <<" mins">>

(***************************************************************************)
(* The Recipe of the parser, as far as the renderer reads it.  Indices of  *)
(* step items start at 0, as in the code.                                  *)
(***************************************************************************)
QuantityNew(value, unit) == [value |-> value, unit |-> unit]

IngredientNew(name, alias, quantity, optional, listed) ==
    [name |-> name, alias |-> alias, quantity |-> quantity,
     optional |-> optional, listed |-> listed]

\* Ingredient::display_name: the alias when there is one.
DisplayName(ingredient) ==
    IF IsSome(ingredient.alias) THEN Unwrap(ingredient.alias)
    ELSE ingredient.name

TextItem(value) == [kind |-> "text", value |-> value]
IngredientItem(index) == [kind |-> "ingredient", index |-> index]
CookwareItem(index) == [kind |-> "cookware", index |-> index]
TimerItem(index) == [kind |-> "timer", index |-> index]
InlineQuantityItem(index) == [kind |-> "inline_quantity", index |-> index]
StepContent(items) == [kind |-> "step", items |-> items]
TextContent(value) == [kind |-> "text", value |-> value]
SectionNew(name, contents) == [name |-> name, content |-> contents]

(***************************************************************************)
(* recipe.rs: format_quantity and sanitize_latex.                          *)
(***************************************************************************)
FormatQuantity(qty) ==
    IF IsSome(qty.unit)
    THEN NumToString(qty.value) \o <<" ">> \o Unwrap(qty.unit)
    ELSE NumToString(qty.value)

SanitizeLatex(input) ==
    Replace(Replace(Replace(Replace(input,
        "&", <<"\\", "&">>), "%", <<"\\", "%">>), "$", <<"\\", "$">>),
        "#", <<"\\", "#">>)

(***************************************************************************)
(* GroupedQuantity of the cooklang crate: the buckets of a running total,  *)
(* one per unit.  add() sums into the bucket of the same unit and opens a  *)
(* bucket for a unit it has not met.                                       *)
(***************************************************************************)
GroupedQuantityDefault == <<>>

GroupedQuantityAdd(total, qty) ==
    IF \E i \in 1..Len(total) : total[i].unit = qty.unit
    THEN LET i == CHOOSE j \in 1..Len(total) : total[j].unit = qty.unit
         IN [total EXCEPT ![i].value = @ + qty.value]
    ELSE Append(total, qty)

(***************************************************************************)
(* recipe.rs: get_ingredients_by_section.  The HashMap of a section is a   *)
(* function from the names met to (index, ingredient, quantity); its       *)
(* iteration order is any order of its keys.                               *)
(***************************************************************************)
MapPut(map, key, value) ==
    [k \in (DOMAIN map) \cup {key} |-> IF k = key THEN value ELSE map[k]]

\* The entry of a name replaced by every further mention of the name.
EntryInsertOverwrites(map, index, ingredient) ==
    LET fresh == [index |-> index, ingredient |-> ingredient,
                  quantity |-> IF ingredient.name \in DOMAIN map
                               THEN map[ingredient.name].quantity
                               ELSE GroupedQuantityDefault]
        slot == MapPut(map, ingredient.name, fresh)
    IN IF IsSome(ingredient.quantity)
       THEN [slot EXCEPT ![ingredient.name].quantity =
                 GroupedQuantityAdd(@, Unwrap(ingredient.quantity))]
       ELSE slot

\* entry(name).or_insert(..) followed by the addition of the quantity.
EntryOrInsert(map, index, ingredient) ==
    LET slot == IF ingredient.name \in DOMAIN map THEN map
                ELSE MapPut(map, ingredient.name,
                            [index |-> index, ingredient |-> ingredient,
                             quantity |-> GroupedQuantityDefault])
    IN IF IsSome(ingredient.quantity)
       THEN [slot EXCEPT ![ingredient.name].quantity =
                 GroupedQuantityAdd(@, Unwrap(ingredient.quantity))]
       ELSE slot

RECURSIVE WalkItems(_, _, _)
WalkItems(map, r, items) ==
    IF items = <<>> THEN map
    ELSE LET item == Head(items)
             next == IF item.kind = "ingredient"
                     THEN EntryOrInsert(map, item.index,
                                        r.ingredients[item.index + 1])
                     ELSE map
         IN WalkItems(next, r, Tail(items))

RECURSIVE WalkContent(_, _, _)
WalkContent(map, r, contents) ==
    IF contents = <<>> THEN map
    ELSE LET c == Head(contents)
             next == IF c.kind = "step" THEN WalkItems(map, r, c.items)
                     ELSE map
         IN WalkContent(next, r, Tail(contents))

\* The orders in which a HashMap with these keys may be iterated.
IterationOrders(keys) ==
    {o \in [1..Cardinality(keys) -> keys] :
        \A i, j \in 1..Cardinality(keys) : i # j => o[i] # o[j]}

\* sort_by_key(|gi| gi.index): a stable sort.
RECURSIVE InsertByIndex(_, _)
InsertByIndex(sorted, gi) ==
    IF sorted = <<>> THEN <<gi>>
    ELSE IF gi.index < Head(sorted).index THEN <<gi>> \o sorted
    ELSE <<Head(sorted)>> \o InsertByIndex(Tail(sorted), gi)

RECURSIVE SortByIndexLoop(_, _)
SortByIndexLoop(sorted, rest) ==
    IF rest = <<>> THEN sorted
    ELSE SortByIndexLoop(InsertByIndex(sorted, Head(rest)), Tail(rest))

\* The groups left in the iteration order of the HashMap.
SortSkipped(gis) == gis

SortByIndex(gis) == SortByIndexLoop(<<>>, gis)

SectionIngredients(r, section, order) ==
    LET ingredients == WalkContent(<<>>, r, section.content)
        output == [i \in 1..Len(order) |->
                      [index |-> ingredients[order[i]].index,
                       ingredient |-> ingredients[order[i]].ingredient,
                       quantity |-> ingredients[order[i]].quantity]]
    IN [name |-> section.name, ingredients |-> SortByIndex(output)]

\* One HashMap kept across the sections instead of one per section.
GetIngredientsMapShared(r, orders) ==
    [s \in 1..Len(r.sections) |->
        LET shared == WalkContent(<<>>, r,
                          Concat([t \in 1..s |-> r.sections[t].content]))
            order == CHOOSE o \in IterationOrders(DOMAIN shared) :
                         \A i, j \in 1..Len(o) :
                             i < j => shared[o[i]].index < shared[o[j]].index
        IN [name |-> r.sections[s].name,
            ingredients |-> [i \in 1..Len(order) |->
                                [index |-> shared[order[i]].index,
                                 ingredient |-> shared[order[i]].ingredient,
                                 quantity |-> shared[order[i]].quantity]]]]

\* orders[s] is the iteration order of the HashMap of section s.
GetIngredientsBySection(r, orders) ==
    [s \in 1..Len(r.sections) |->
        SectionIngredients(r, r.sections[s], orders[s])]

SectionKeys(r, section) == DOMAIN WalkContent(<<>>, r, section.content)

\* The iteration orders of the HashMaps of all sections of r.
HashMapOrders(r) ==
    LET n == Len(r.sections)
        all == UNION {IterationOrders(SectionKeys(r, r.sections[s])) :
                         s \in 1..n}
    IN {o \in [1..n -> all] :
           \A s \in 1..n :
               o[s] \in IterationOrders(SectionKeys(r, r.sections[s]))}

(***************************************************************************)
(* recipe.rs: ingredient_list.                                             *)
(***************************************************************************)
IngredientArgs(gi) ==
    LET formatted == [i \in 1..Len(gi.quantity) |->
                         FormatQuantity(gi.quantity[i])]
        parts == (IF formatted # <<>> THEN <<Join(formatted, ", ")>>
                  ELSE <<>>) \o <<gi.ingredient.name>>
    IN <<ArgRequired(SanitizeLatex(Join(parts, " ")))>>
           \o (IF gi.ingredient.optional
               THEN <<ArgOptional(<<"\\", "BooleanTrue">>)>> ELSE <<>>)

RECURSIVE IngredientListItems(_, _)
IngredientListItems(latex, gis) ==
    IF gis = <<>> THEN latex
    ELSE LET gi == Head(gis)
             next == IF ~gi.ingredient.listed THEN latex
                     ELSE AddCommand(latex, "ingredient", IngredientArgs(gi))
         IN IngredientListItems(next, Tail(gis))

RECURSIVE IngredientListLoop(_, _)
IngredientListLoop(latex, sections) ==
    IF sections = <<>> THEN latex
    ELSE LET sec == Head(sections)
             headed == IF IsSome(sec.name)
                       THEN AddSimpleCommand(latex, "ingredientsection",
                                             SanitizeLatex(Unwrap(sec.name)))
                       ELSE latex
         IN IngredientListLoop(IngredientListItems(headed, sec.ingredients),
                               Tail(sections))

IngredientList(ingredients) == IngredientListLoop(BuilderNew, ingredients)

(***************************************************************************)
(* recipe.rs: format_timer, step_text and instruction_list.                *)
(***************************************************************************)
\* A timer with neither quantity nor name reaches unreachable!().
TimerUnreachable(timer) == ~IsSome(timer.quantity) /\ ~IsSome(timer.name)

FormatTimer(quantity, name) ==
    IF IsSome(quantity) /\ IsSome(name)
    THEN FormatQuantity(Unwrap(quantity)) \o <<" (">> \o Unwrap(name) \o <<")">>
    ELSE IF IsSome(quantity) THEN FormatQuantity(Unwrap(quantity))
    ELSE Unwrap(name)

ItemText(r, item) ==
    CASE item.kind = "text" -> item.value
      [] item.kind = "ingredient" -> DisplayName(r.ingredients[item.index + 1])
      [] item.kind = "cookware" -> r.cookware[item.index + 1].name
      [] item.kind = "timer" ->
             FormatTimer(r.timers[item.index + 1].quantity,
                         r.timers[item.index + 1].name)
      [] item.kind = "inline_quantity" ->
             FormatQuantity(r.inline_quantities[item.index + 1])

StepText(r, step) ==
    Concat([i \in 1..Len(step.items) |-> ItemText(r, step.items[i])])

RECURSIVE InstructionListContent(_, _, _)
InstructionListContent(latex, r, contents) ==
    IF contents = <<>> THEN latex
    ELSE LET c == Head(contents)
             instruction == IF c.kind = "step" THEN StepText(r, c)
                            ELSE c.value
         IN InstructionListContent(
                AddSimpleCommand(latex, "step", SanitizeLatex(instruction)),
                r, Tail(contents))

RECURSIVE InstructionListLoop(_, _, _)
InstructionListLoop(latex, r, sections) ==
    IF sections = <<>> THEN latex
    ELSE LET sec == Head(sections)
             headed == IF Len(r.sections) > 1 /\ IsSome(sec.name)
                       THEN AddSimpleCommand(latex, "instructionsection",
                                             SanitizeLatex(Unwrap(sec.name)))
                       ELSE latex
         IN InstructionListLoop(
                InstructionListContent(headed, r, sec.content),
                r, Tail(sections))

InstructionList(r) == InstructionListLoop(BuilderNew, r, r.sections)

\* Whether step_text panics on some step of the recipe.
StepTextPanics(r) ==
    \E s \in 1..Len(r.sections) :
        \E c \in 1..Len(r.sections[s].content) :
            /\ r.sections[s].content[c].kind = "step"
            /\ \E i \in 1..Len(r.sections[s].content[c].items) :
                   LET item == r.sections[s].content[c].items[i]
                   IN /\ item.kind = "timer"
                      /\ TimerUnreachable(r.timers[item.index + 1])

(***************************************************************************)
(* recipe.rs: recipe_meta, build_recipe_content and create_recipe.  A      *)
(* result is Ok(text), Err(message) or a panic, which unwinds through      *)
(* every caller up to main.                                                *)
(***************************************************************************)
Ok(value) == [kind |-> "ok", value |-> value]
Err(message) == [kind |-> "err", value |-> <<message>>]
Panic(message) == [kind |-> "panic", value |-> <<message>>]

OptionalTime(time) ==
    IF IsSome(time) THEN FormatTime(Unwrap(time)) ELSE <<>>

\* Called once servings is known to be present: expect() panics otherwise.
RecipeMeta(meta) ==
    <<ArgRequired(NumToString(Unwrap(meta.servings))),
      ArgRequired(OptionalTime(meta.prep_time)),
      ArgRequired(OptionalTime(meta.cook_time)),
      ArgRequired(<<"Moderate">>)>>

BuildRecipeContent(r, orders) ==
    LET groupedIngredients == GetIngredientsBySection(r, orders)
        ingredients == IngredientList(groupedIngredients)
        instructions == InstructionList(r)
    IN AddEnv(AddEnv(BuilderNew, <<"ingredients">>, ingredients),
              <<"instructions">>, instructions)

CreateRecipe(r, orders) ==
    IF ~IsSome(r.metadata.title) THEN Err("Recipe must have a title")
    ELSE IF ~IsSome(r.metadata.description)
         THEN Err("Recipe must have a description")
    ELSE IF StepTextPanics(r)
         THEN Panic("Timer must have either quantity or name")
    ELSE IF ~IsSome(r.metadata.servings)
         THEN Panic("Servings must be defined")
    ELSE LET recipeContent == BuildRecipeContent(r, orders)
             meta == RecipeMeta(r.metadata)
             header == AddSimpleCommand(BuilderNew, "recipeheader",
                                        Unwrap(r.metadata.title))
             desc == AddSimpleCommand(header, "recipedesc",
                                      Unwrap(r.metadata.description))
             withMeta == AddCommand(desc, "recipemeta", meta)
         IN Ok(Build(AddEnv(withMeta, <<"recipe">>, recipeContent)))

(***************************************************************************)
(* Specification SpecTime: format_time applied to every minute count up to *)
(* MaxMinutes.                                                             *)
(***************************************************************************)
BuilderIds == {1, 2}

BuilderIdle ==
    /\ content = [b \in BuilderIds |-> BuilderNew]
    /\ ret = None
    /\ last = [op |-> "new"]

TimeIdle == minutes = 0 /\ timeText = None

RenderIdle ==
    /\ recipe = None /\ grouped = None /\ listing = None
    /\ created = None /\ phase = "idle"

MainIdle ==
    /\ pc = "idle" /\ collections = <<>> /\ collIdx = 0
    /\ files = <<>> /\ fileIdx = 0 /\ resultFiles = <<>>
    /\ mainLatex = BuilderNew /\ lastFile = None /\ warning = None
    /\ results = <<>> /\ returns = <<>>
    /\ template = None /\ mainTex = None /\ mainResult = None

InitTime ==
    /\ minutes \in 0..MaxMinutes
    /\ timeText = None
    /\ BuilderIdle
    /\ RenderIdle
    /\ MainIdle

FormatTimeCall ==
    /\ timeText = None
    /\ timeText' = Some(FormatTime(minutes))
    /\ UNCHANGED <<minutes, builderVars, renderVars, mainVars>>

NextTime == FormatTimeCall

SpecTime == InitTime /\ [][NextTime]_vars

(***************************************************************************)
(* Specification SpecBuilder: any sequence of LatexBuilder calls on two    *)
(* builders.                                                               *)
(***************************************************************************)
CommandNames == {"ingredient"}
EnvNames == {<<"r">>, <<"i">>}
ArgLists == {<<ArgRequired(<<"x">>), ArgOptional(<<"y">>)>>}

InitBuilder == BuilderIdle /\ TimeIdle /\ RenderIdle /\ MainIdle

AddCommandCall(b, command, args) ==
    /\ Len(content[b]) < MaxLines
    /\ content' = [content EXCEPT ![b] = AddCommand(@, command, args)]
    /\ last' = [op |-> "add_command", self |-> b]
    /\ ret' = None
    /\ UNCHANGED <<timeVars, renderVars, mainVars>>

AddSimpleCommandCall(b, command, arg) ==
    /\ Len(content[b]) < MaxLines
    /\ content' = [content EXCEPT ![b] = AddSimpleCommand(@, command, arg)]
    /\ last' = [op |-> "add_simple_command", self |-> b]
    /\ ret' = None
    /\ UNCHANGED <<timeVars, renderVars, mainVars>>

\* self is borrowed mutably and the body immutably: they are two builders.
AddEnvCall(b, env, o) ==
    /\ b # o
    /\ Len(content[b]) + Len(content[o]) + 2 <= MaxLines
    /\ content' = [content EXCEPT ![b] = AddEnv(@, env, content[o])]
    /\ last' = [op |-> "add_env", self |-> b, env |-> env, body |-> o]
    /\ ret' = None
    /\ UNCHANGED <<timeVars, renderVars, mainVars>>

AddBuilderCall(b, o) ==
    /\ b # o
    /\ Len(content[b]) + Len(content[o]) <= MaxLines
    /\ content' = [content EXCEPT ![b] = AddBuilder(@, content[o])]
    /\ last' = [op |-> "add_builder", self |-> b, body |-> o]
    /\ ret' = None
    /\ UNCHANGED <<timeVars, renderVars, mainVars>>

\* build(&self) reads the builder and returns the joined text.
BuildCall(b) ==
    /\ ret' = Some(Build(content[b]))
    /\ last' = [op |-> "build", self |-> b]
    /\ UNCHANGED <<content, timeVars, renderVars, mainVars>>

NextBuilder ==
    \/ \E b \in BuilderIds, c \in CommandNames, a \in ArgLists :
           AddCommandCall(b, c, a)
    \/ \E b \in BuilderIds : AddSimpleCommandCall(b, "step", <<"x">>)
    \/ \E b \in BuilderIds, o \in BuilderIds, e \in EnvNames : AddEnvCall(b, e, o)
    \/ \E b \in BuilderIds, o \in BuilderIds : AddBuilderCall(b, o)
    \/ \E b \in BuilderIds : BuildCall(b)

SpecBuilder == InitBuilder /\ [][NextBuilder]_vars

(***************************************************************************)
(* Specification SpecAggregate: get_ingredients_by_section and             *)
(* ingredient_list on recipes of two sections.  A recipe is an ingredient  *)
(* table of up to MaxIngredients entries and up to MaxMentions ingredient  *)
(* items, each naming any entry of the table, laid out over the steps of   *)
(* the sections.                                                           *)
(***************************************************************************)
Tsp == Some(<<"tsp">>)
Gram == Some(<<"g">>)

EntryChoices ==
    {IngredientNew(<<"a">>, None, Some(QuantityNew(1, Tsp)), TRUE, TRUE),
     IngredientNew(<<"a">>, None, Some(QuantityNew(2, Tsp)), FALSE, FALSE),
     IngredientNew(<<"a">>, None, Some(QuantityNew(1, Gram)), FALSE, TRUE),
     IngredientNew(<<"b">>, None, None, FALSE, TRUE)}

Tables == UNION {[1..n -> EntryChoices] : n \in 1..MaxIngredients}

\* The steps an ingredient item may stand in: (section, content entry).
Cells == <<[section |-> 1, entry |-> 1], [section |-> 1, entry |-> 3],
           [section |-> 2, entry |-> 1]>>

\* A layout: the table index and the cell of every mention, in walk order.
Layouts(n) ==
    UNION {{l \in [1..k -> [index : 0..(n - 1), cell : 1..Len(Cells)]] :
               \A i \in 1..(k - 1) : l[i].cell <= l[i + 1].cell} :
           k \in 0..MaxMentions}

CellItems(layout, cell) ==
    LET here == SelectSeq(layout, LAMBDA m : m.cell = cell)
    IN [i \in 1..Len(here) |-> IngredientItem(here[i].index)]

FullMetadata ==
    [title |-> Some(<<"t">>), description |-> Some(<<"d">>),
     servings |-> Some(2), prep_time |-> None, cook_time |-> None]

LaidOutRecipe(table, layout) ==
    [metadata |-> FullMetadata,
     ingredients |-> table,
     cookware |-> <<>>, timers |-> <<>>, inline_quantities |-> <<>>,
     sections |->
        <<SectionNew(None,
              <<StepContent(<<TextItem(<<"x">>)>> \o CellItems(layout, 1)),
                TextContent(<<"y">>),
                StepContent(CellItems(layout, 2))>>),
          SectionNew(Some(<<"s">>),
              <<StepContent(CellItems(layout, 3) \o <<TextItem(<<"z">>)>>)>>)>>]

InitAggregate ==
    /\ \E table \in Tables :
           \E layout \in Layouts(Len(table)) :
               recipe = LaidOutRecipe(table, layout)
    /\ grouped = None /\ listing = None /\ created = None
    /\ phase = "recipe"
    /\ BuilderIdle /\ TimeIdle /\ MainIdle

GetIngredientsBySectionCall ==
    /\ phase = "recipe"
    /\ \E orders \in HashMapOrders(recipe) :
           grouped' = GetIngredientsBySection(recipe, orders)
    /\ phase' = "grouped"
    /\ UNCHANGED <<builderVars, timeVars, mainVars, recipe, listing, created>>

IngredientListCall ==
    /\ phase = "grouped"
    /\ listing' = IngredientList(grouped)
    /\ phase' = "listed"
    /\ UNCHANGED <<builderVars, timeVars, mainVars, recipe, grouped, created>>

NextAggregate == GetIngredientsBySectionCall \/ IngredientListCall

SpecAggregate == InitAggregate /\ [][NextAggregate]_vars

(***************************************************************************)
(* Specification SpecRender: create_recipe on recipes whose metadata may   *)
(* lack a key and whose free text holds characters LaTeX reserves.         *)
(***************************************************************************)
Titles == {None, Some(<<"t">>), Some(<<"5", "0", "%">>)}
Descriptions == {None, Some(<<"d">>), Some(<<"a", "&", "b">>)}
ServingsChoices == {None, Some(4)}
TimeChoices == {None, Some(45), Some(90)}

BodyTwoSections ==
    [ingredients |->
        <<IngredientNew(<<"a", "&", "b">>, Some(<<"c", "#">>),
                        Some(QuantityNew(5, Some(<<"%">>))), TRUE, TRUE),
          IngredientNew(<<"e">>, None, None, FALSE, TRUE)>>,
     cookware |-> <<[name |-> <<"p", "$">>]>>,
     timers |-> <<[name |-> Some(<<"k">>),
                   quantity |-> Some(QuantityNew(10, Some(<<"min">>)))],
                  [name |-> None, quantity |-> Some(QuantityNew(3, None))],
                  [name |-> Some(<<"r", "&">>), quantity |-> None]>>,
     inline_quantities |-> <<QuantityNew(7, Gram)>>,
     sections |->
        <<SectionNew(Some(<<"s", "#">>),
              <<StepContent(<<TextItem(<<"m", "$">>), IngredientItem(0),
                              CookwareItem(0), TimerItem(0),
                              InlineQuantityItem(0)>>),
                TextContent(<<"n", "%">>)>>),
          SectionNew(None,
              <<StepContent(<<TimerItem(1), IngredientItem(1),
                              TimerItem(2)>>)>>)>>]

BodyOneSection ==
    [ingredients |-> <<IngredientNew(<<"e">>, None, None, FALSE, TRUE)>>,
     cookware |-> <<>>, timers |-> <<>>, inline_quantities |-> <<>>,
     sections |->
        <<SectionNew(Some(<<"s">>),
              <<StepContent(<<TextItem(<<"m">>), IngredientItem(0)>>)>>)>>]

Bodies == {BodyTwoSections, BodyOneSection}

WithMetadata(body, meta) ==
    [metadata |-> meta, ingredients |-> body.ingredients,
     cookware |-> body.cookware, timers |-> body.timers,
     inline_quantities |-> body.inline_quantities,
     sections |-> body.sections]

RenderRecipes ==
    {WithMetadata(b, m) :
        b \in Bodies,
        m \in [title : Titles, description : Descriptions,
               servings : ServingsChoices, prep_time : TimeChoices,
               cook_time : TimeChoices]}

InitRender ==
    /\ recipe \in RenderRecipes
    /\ grouped = None /\ listing = None /\ created = None
    /\ phase = "recipe"
    /\ BuilderIdle /\ TimeIdle /\ MainIdle

CreateRecipeCall ==
    /\ phase = "recipe"
    /\ \E orders \in HashMapOrders(recipe) :
           created' = CreateRecipe(recipe, orders)
    /\ phase' = "created"
    /\ UNCHANGED <<builderVars, timeVars, mainVars, recipe, grouped, listing>>

NextRender == CreateRecipeCall

SpecRender == InitRender /\ [][NextRender]_vars

(***************************************************************************)
(* recipe.rs: get_collection_name, write_recipe, transpile_recipe and the  *)
(* end of transpile_collection.  A path is the sequence of its components; *)
(* a file name is the text of its stem followed by its extension.  What    *)
(* the file system and the parser answer for a file is the environment env *)
(* of the call.                                                            *)
(***************************************************************************)
GetCollectionName(path) ==
    IF path = <<>> \/ path[Len(path)] = ".." THEN Err("Invalid collection path")
    ELSE Ok(path[Len(path)])

FileStem(fileName) ==
    IF Len(fileName) > 1 THEN SubSeq(fileName, 1, Len(fileName) - 1)
    ELSE fileName

RelativePath(collectionName, fileName) ==
    <<collectionName, "/">> \o FileStem(fileName) \o <<".tex">>

WriteRecipe(collectionName, fileName, contents, env) ==
    IF ~env.createDir THEN Err("create_dir_all failed")
    ELSE IF ~env.write THEN Err("write_file failed")
    ELSE Ok(RelativePath(collectionName, fileName))

TranspileRecipe(fileName, collectionName, env, orders) ==
    IF ~env.readable THEN Err("read_file failed")
    ELSE IF ~env.utf8 THEN Err("Could not convert to str")
    ELSE IF ~env.parses THEN Err("parse error")
    ELSE LET rendered == CreateRecipe(env.recipe, orders)
         IN IF rendered.kind # "ok" THEN rendered
            ELSE WriteRecipe(collectionName, fileName, rendered.value, env)

\* After the loop over the files.
CollectionResult(recipeFiles) ==
    IF recipeFiles = <<>>
    THEN Err("No recipes were successfully compiled in collection")
    ELSE Ok(recipeFiles)

(***************************************************************************)
(* main.rs: the lines main adds for the files of a collection, and         *)
(* recipe.rs: replace_in_main_tex.  The placeholder is one token of        *)
(* main.tex.                                                               *)
(***************************************************************************)
\* A newpage line after every input line, the last included.
RECURSIVE AddInputsNewpageAfterEach(_, _)
AddInputsNewpageAfterEach(builder, recipeFiles) ==
    IF recipeFiles = <<>> THEN builder
    ELSE AddInputsNewpageAfterEach(
             AddCommand(AddSimpleCommand(builder, "input", Head(recipeFiles)),
                        "newpage", <<>>),
             Tail(recipeFiles))

RECURSIVE AddInputs(_, _)
AddInputs(builder, recipeFiles) ==
    IF recipeFiles = <<>> THEN builder
    ELSE LET withInput == AddSimpleCommand(builder, "input", Head(recipeFiles))
             next == IF Tail(recipeFiles) # <<>>
                     THEN AddCommand(withInput, "newpage", <<>>)
                     ELSE withInput
         IN AddInputs(next, Tail(recipeFiles))

Placeholder == "%{{recipes}}"

\* read is the result of reading main.tex; written is what main.tex is
\* rewritten to, None when it is not written.
ReplaceInMainTex(read, newContent, writable) ==
    IF read.kind # "ok" THEN [result |-> read, written |-> None]
    ELSE LET newContents == Replace(read.value, Placeholder, newContent)
         IN IF writable
            THEN [result |-> Ok(<<>>), written |-> Some(newContents)]
            ELSE [result |-> Err("write_file failed"), written |-> None]

(***************************************************************************)
(* Specification SpecMain: main over up to MaxCollections collections of   *)
(* up to MaxFiles files each.                                              *)
(***************************************************************************)
CollectionPaths == {<<"in", "soups">>, <<"in", "mains">>, <<"..">>}

\* The files of a directory, in the order list_dir gives them.
Directory == <<<<"r2", ".cook">>, <<"r1", ".cook">>, <<"r3", ".cook">>>>

\* What list_dir may answer: the first files of the directory.
Listings == {SubSeq(Directory, 1, n) : n \in 0..MaxFiles}

MetadataWith(title, description, servings) ==
    [title |-> IF title THEN Some(<<"t">>) ELSE None,
     description |-> IF description THEN Some(<<"d">>) ELSE None,
     servings |-> IF servings THEN Some(2) ELSE None,
     prep_time |-> Some(90), cook_time |-> None]

FileEnv(readable, utf8, parses, meta, createDir, write) ==
    [readable |-> readable, utf8 |-> utf8, parses |-> parses,
     recipe |-> WithMetadata(BodyOneSection, meta),
     createDir |-> createDir, write |-> write]

Complete == MetadataWith(TRUE, TRUE, TRUE)

FileEnvs ==
    {FileEnv(TRUE, TRUE, TRUE, Complete, TRUE, TRUE),
     FileEnv(FALSE, TRUE, TRUE, Complete, TRUE, TRUE),
     FileEnv(TRUE, FALSE, TRUE, Complete, TRUE, TRUE),
     FileEnv(TRUE, TRUE, FALSE, Complete, TRUE, TRUE),
     FileEnv(TRUE, TRUE, TRUE, MetadataWith(FALSE, TRUE, TRUE), TRUE, TRUE),
     FileEnv(TRUE, TRUE, TRUE, MetadataWith(TRUE, FALSE, TRUE), TRUE, TRUE),
     FileEnv(TRUE, TRUE, TRUE, MetadataWith(TRUE, TRUE, FALSE), TRUE, TRUE),
     FileEnv(TRUE, TRUE, TRUE, Complete, FALSE, TRUE),
     FileEnv(TRUE, TRUE, TRUE, Complete, TRUE, FALSE)}

Templates ==
    {<<"pre", Placeholder, "post">>, <<"pre", "post">>,
     <<Placeholder, "mid", Placeholder>>}

InitMain ==
    /\ pc = "start"
    /\ collections \in UNION {[1..n -> CollectionPaths] : n \in 0..MaxCollections}
    /\ collIdx = 0
    /\ files = <<>> /\ fileIdx = 0 /\ resultFiles = <<>>
    /\ mainLatex = BuilderNew /\ lastFile = None /\ warning = None
    /\ results = <<>> /\ returns = <<>>
    /\ template = None /\ mainTex = None /\ mainResult = None
    /\ BuilderIdle /\ TimeIdle /\ RenderIdle

\* clone_folder_to_target, whose failure main returns.
CloneFolderCall ==
    /\ pc = "start"
    /\ \E cloned \in BOOLEAN : pc' = IF cloned THEN "loop" ELSE "failed"
    /\ UNCHANGED <<collections, collIdx, files, fileIdx, resultFiles,
                   mainLatex, lastFile, warning, results, returns, template,
                   mainTex, mainResult, builderVars, timeVars, renderVars>>

CurrentName == GetCollectionName(collections[collIdx + 1]).value

\* One turn of the loop of main up to the listing of transpile_collection:
\* the name of the collection, its chapter line, list_dir.
MainCollectionCall ==
    /\ pc = "loop"
    /\ collIdx < Len(collections)
    /\ LET name == GetCollectionName(collections[collIdx + 1])
       IN IF name.kind # "ok"
          THEN /\ pc' = "failed"
               /\ UNCHANGED <<collIdx, files, fileIdx, resultFiles, mainLatex,
                              lastFile, warning, results, returns>>
          ELSE /\ mainLatex' = AddSimpleCommand(mainLatex, "chapter",
                                                <<name.value>>)
               /\ \/ /\ warning' = Some(<<"Warning: Failed to process collection",
                                          name.value>>)
                     /\ returns' = Append(returns,
                            [name |-> name.value,
                             value |-> Err("Failed to read collection")])
                     /\ collIdx' = collIdx + 1
                     /\ pc' = "loop"
                     /\ files' = <<>> /\ fileIdx' = 0
                     /\ resultFiles' = <<>> /\ results' = <<>>
                  \/ \E answer \in Listings :
                     /\ files' = answer
                     /\ fileIdx' = 0
                     /\ resultFiles' = <<>>
                     /\ results' = <<>>
                     /\ warning' = None
                     /\ pc' = "files"
                     /\ UNCHANGED <<collIdx, returns>>
               /\ lastFile' = None
    /\ UNCHANGED <<collections, template, mainTex, mainResult, builderVars,
                   timeVars, renderVars>>

\* One turn of the loop of transpile_collection: transpile_recipe on the
\* next file and the match on its result.
TranspileRecipeCall ==
    /\ pc = "files"
    /\ fileIdx < Len(files)
    /\ \E env \in FileEnvs :
         \E orders \in HashMapOrders(env.recipe) :
           LET file == files[fileIdx + 1]
               result == TranspileRecipe(file, CurrentName, env, orders)
           IN /\ lastFile' = Some([file |-> file, env |-> env,
                                   result |-> result])
              /\ IF result.kind = "panic"
                 THEN /\ pc' = "panicked"
                      /\ UNCHANGED <<fileIdx, resultFiles, results, warning>>
                 ELSE /\ pc' = "files"
                      /\ fileIdx' = fileIdx + 1
                      /\ results' = Append(results, result.kind)
                      /\ IF result.kind = "ok"
                         THEN /\ resultFiles' = Append(resultFiles, result.value)
                              /\ warning' = None
                         ELSE /\ resultFiles' = resultFiles
                              /\ warning' = Some(<<"Warning: Failed to compile recipe">>
                                                     \o file)
    /\ UNCHANGED <<collections, collIdx, files, mainLatex, returns, template,
                   mainTex, mainResult, builderVars, timeVars, renderVars>>

\* The end of transpile_collection and the match of main on what it returns.
\* files, results and resultFiles keep the values of the call that ended
\* until the next call starts.
CollectionReturn ==
    /\ pc = "files"
    /\ fileIdx = Len(files)
    /\ LET value == CollectionResult(resultFiles)
       IN /\ mainLatex' = IF value.kind = "ok"
                          THEN AddInputs(mainLatex, value.value)
                          ELSE mainLatex
          /\ warning' = IF value.kind = "ok" THEN None
                        ELSE Some(<<"Warning: Failed to process collection",
                                    CurrentName>>)
          /\ returns' = Append(returns, [name |-> CurrentName, value |-> value])
    /\ collIdx' = collIdx + 1
    /\ pc' = "loop"
    /\ lastFile' = None
    /\ UNCHANGED <<files, fileIdx, resultFiles, results>>
    /\ UNCHANGED <<collections, template, mainTex, mainResult, builderVars,
                   timeVars, renderVars>>

\* After the loop: replace_in_main_tex on what main has built.
ReplaceInMainTexCall ==
    /\ pc = "loop"
    /\ collIdx = Len(collections)
    /\ \E read \in {Err("read_file failed")} \cup {Ok(t) : t \in Templates},
          writable \in BOOLEAN :
           LET done == ReplaceInMainTex(read, Build(mainLatex), writable)
           IN /\ template' = Some(read)
              /\ mainTex' = done.written
              /\ mainResult' = Some(done.result)
              /\ pc' = IF done.result.kind = "ok" THEN "done" ELSE "failed"
    /\ warning' = None
    /\ files' = <<>> /\ fileIdx' = 0 /\ resultFiles' = <<>> /\ results' = <<>>
    /\ UNCHANGED <<collections, collIdx, mainLatex, lastFile, returns,
                   builderVars, timeVars, renderVars>>

NextMain ==
    \/ CloneFolderCall
    \/ MainCollectionCall
    \/ TranspileRecipeCall
    \/ CollectionReturn
    \/ ReplaceInMainTexCall

SpecMain == InitMain /\ [][NextMain]_vars

(***************************************************************************)
(* Helpers of the properties.                                              *)
(***************************************************************************)
IsPrefix(s, t) == Len(s) <= Len(t) /\ SubSeq(t, 1, Len(s)) = s

DigitValue(c) == CHOOSE d \in 0..9 : DigitChar(d) = c

RECURSIVE ParseNat(_)
ParseNat(digits) ==
    IF digits = <<>> THEN 0
    ELSE 10 * ParseNat(SubSeq(digits, 1, Len(digits) - 1))
             + DigitValue(digits[Len(digits)])

IndexOf(text, token) ==
    IF \E i \in 1..Len(text) : text[i] = token
    THEN CHOOSE i \in 1..Len(text) :
             text[i] = token /\ \A j \in 1..(i - 1) : text[j] # token
    ELSE 0

BeginLine(env) == <<"\\", "begin", "{">> \o env \o <<"}">>
EndLine(env) == <<"\\", "end", "{">> \o env \o <<"}">>
IsBeginLine(line) == Len(line) >= 2 /\ line[2] = "begin"
IsEndLine(line) == Len(line) >= 2 /\ line[2] = "end"
EnvOfLine(line) == SubSeq(line, 4, Len(line) - 1)

\* The begin and end lines of a document are balanced and properly nested.
RECURSIVE Nested(_, _)
Nested(lines, stack) ==
    IF lines = <<>> THEN stack = <<>>
    ELSE IF IsBeginLine(Head(lines))
         THEN Nested(Tail(lines), <<EnvOfLine(Head(lines))>> \o stack)
    ELSE IF IsEndLine(Head(lines))
         THEN /\ stack # <<>>
              /\ Head(stack) = EnvOfLine(Head(lines))
              /\ Nested(Tail(lines), Tail(stack))
    ELSE Nested(Tail(lines), stack)

(***************************************************************************)
(* C8: format_time(m) is "<m> mins" below 60 minutes; from 60 minutes on   *)
(* it is "<m div 60> hrs" when m mod 60 = 0 and "<m div 60> hrs <m mod 60> *)
(* mins" otherwise; 0, 59, 60, 90 and 125 give the texts of the            *)
(* specification; a mins part after an hrs part is never 0 and always      *)
(* below 60.                                                               *)
(***************************************************************************)
C8_FormatTime ==
    IsSome(timeText) =>
        LET m == minutes
            text == Unwrap(timeText)
            hrsAt == IndexOf(text, " hrs ")
        IN /\ m < 60 => text = NumToString(m) \o <<" mins">>
           /\ (m >= 60 /\ m % 60 = 0) =>
                  text = NumToString(m \div 60) \o <<" hrs">>
           /\ (m >= 60 /\ m % 60 > 0) =>
                  text = NumToString(m \div 60) \o <<" hrs ">>
                                 \o NumToString(m % 60) \o <<" mins">>
           /\ m = 0 => text = <<"0", " mins">>
           /\ m = 59 => text = <<"5", "9", " mins">>
           /\ m = 60 => text = <<"1", " hrs">>
           /\ m = 90 => text = <<"1", " hrs ", "3", "0", " mins">>
           /\ m = 125 => text = <<"2", " hrs ", "5", " mins">>
           /\ hrsAt > 0 =>
                  LET part == ParseNat(SubSeq(text, hrsAt + 1,
                                              Len(text) - 1))
                  IN part > 0 /\ part < 60

C8_Witness == minutes = 125 /\ timeText = Some(<<"2", " hrs ", "5", " mins">>)

\* What one call may do to the builders.
C9_AppendStep ==
    /\ \A b \in BuilderIds : IsPrefix(content[b], content'[b])
    /\ last'.op = "add_env" =>
           /\ content'[last'.self] =
                  content[last'.self] \o <<BeginLine(last'.env)>>
                      \o content[last'.body] \o <<EndLine(last'.env)>>
           /\ content'[last'.body] = content[last'.body]
    /\ last'.op = "build" =>
           /\ content' = content
           /\ ret' = Some(Join(content[last'.self], "\n"))
           /\ (last.op = "build" /\ last.self = last'.self) => ret' = ret

(***************************************************************************)
(* C9: every LatexBuilder call keeps the lines a builder had as a prefix   *)
(* of its lines; add_env(name, body) appends a begin line, the lines of    *)
(* body and an end line and leaves body as it was; begin and end lines     *)
(* stay properly nested; build() leaves the builder alone and returns the  *)
(* same text when repeated.                                                *)
(***************************************************************************)
C9_AppendOnly ==
    /\ [][C9_AppendStep]_vars
    /\ [](\A b \in BuilderIds : Nested(content[b], <<>>))

C9_Witness ==
    /\ last.op = "add_env"
    /\ Len(content[1]) = 5
    /\ content[1][2] = BeginLine(<<"r">>)
    /\ content[1][3] = BeginLine(<<"i">>)
    /\ content[1][4] = EndLine(<<"i">>)
    /\ content[1][5] = EndLine(<<"r">>)

(***************************************************************************)
(* What a section mentions, read off the recipe without the HashMap.       *)
(***************************************************************************)
StepMentions(step) ==
    LET items == SelectSeq(step.items, LAMBDA it : it.kind = "ingredient")
    IN [i \in 1..Len(items) |-> items[i].index]

\* The table indices of the ingredient items of a section, in walk order.
Mentions(section) ==
    Concat([c \in 1..Len(section.content) |->
               IF section.content[c].kind = "step"
               THEN StepMentions(section.content[c]) ELSE <<>>])

NameAt(r, index) == r.ingredients[index + 1].name

\* The table index of the first mention of every name, in walk order.
FirstMentions(r, section) ==
    LET m == Mentions(section)
        firsts == SelectSeq([p \in 1..Len(m) |-> p],
                      LAMBDA p : \A q \in 1..(p - 1) :
                                     NameAt(r, m[q]) # NameAt(r, m[p]))
    IN [i \in 1..Len(firsts) |-> m[firsts[i]]]

Increasing(indices) ==
    \A i, j \in 1..Len(indices) : i < j => indices[i] < indices[j]

GroupNames(gis) == [i \in 1..Len(gis) |-> gis[i].ingredient.name]
GroupIndices(gis) == [i \in 1..Len(gis) |-> gis[i].index]
Range(seq) == {seq[i] : i \in 1..Len(seq)}

RECURSIVE SumValues(_)
SumValues(qs) == IF qs = <<>> THEN 0 ELSE Head(qs).value + SumValues(Tail(qs))

\* The quantities of the mentions of a name in a section, in walk order.
MentionedQuantities(r, section, name) ==
    LET m == SelectSeq(Mentions(section),
                 LAMBDA x : /\ NameAt(r, x) = name
                            /\ IsSome(r.ingredients[x + 1].quantity))
    IN [i \in 1..Len(m) |-> Unwrap(r.ingredients[m[i] + 1].quantity)]

\* total has one bucket per unit of qs, holding the sum of that unit.
IsSumOf(total, qs) ==
    /\ \A i, j \in 1..Len(total) : i # j => total[i].unit # total[j].unit
    /\ {total[i].unit : i \in 1..Len(total)} = {qs[i].unit : i \in 1..Len(qs)}
    /\ \A i \in 1..Len(total) :
           total[i].value =
               SumValues(SelectSeq(qs, LAMBDA q : q.unit = total[i].unit))

Grouped == phase \in {"grouped", "listed"}

C3_PerSection ==
    Grouped =>
        \A s \in 1..Len(recipe.sections) :
            LET sec == recipe.sections[s]
                out == grouped[s].ingredients
                names == {NameAt(recipe, x) : x \in Range(Mentions(sec))}
            IN /\ Range(GroupNames(out)) = names
               /\ Len(out) = Cardinality(names)
               /\ grouped[s].name = sec.name
               /\ \A i \in 1..Len(out) :
                      IsSumOf(out[i].quantity,
                              MentionedQuantities(recipe, sec,
                                                  out[i].ingredient.name))

\* a 1 tsp twice in the first section, a 2 tsp once in the second.
C3_Witness ==
    /\ Grouped
    /\ Len(Mentions(recipe.sections[1])) = 2
    /\ Len(Mentions(recipe.sections[2])) = 1
    /\ \A x \in Range(Mentions(recipe.sections[1])) :
           recipe.ingredients[x + 1].quantity = Some(QuantityNew(1, Tsp))
    /\ GroupNames(grouped[1].ingredients) = <<<<"a">>>>
    /\ grouped[1].ingredients[1].quantity = <<QuantityNew(2, Tsp)>>
    /\ GroupNames(grouped[2].ingredients) = <<<<"a">>>>
    /\ grouped[2].ingredients[1].quantity = <<QuantityNew(2, Tsp)>>

OptionalMarker == <<"[", "\\", "BooleanTrue", "]">>

\* The lines of the listing that belong to section s of a recipe of two
\* sections of which the second alone has a name.
ListingOfSection(lines, s) ==
    LET heading == CHOOSE i \in 1..Len(lines) : lines[i][2] = "ingredientsection"
    IN IF s = 1 THEN SubSeq(lines, 1, heading - 1)
       ELSE SubSeq(lines, heading + 1, Len(lines))

\* The line of the listing for name with these quantities.
ListedLine(name, quantity, marked) ==
    LET formatted == [i \in 1..Len(quantity) |-> FormatQuantity(quantity[i])]
        text == IF formatted = <<>> THEN name
                ELSE Join(formatted, ", ") \o <<" ">> \o name
    IN <<"\\", "ingredient", "{">> \o text \o <<"}">>
           \o (IF marked THEN OptionalMarker ELSE <<>>)

(***************************************************************************)
(* C10: a group is listed exactly when the table entry of the first        *)
(* mention of its name in the section has should_be_listed, and its line   *)
(* carries the optional marker exactly when that entry has is_optional;    *)
(* the flags of later mentions of the name change nothing; the quantities  *)
(* of all mentions are summed, for a group that is not listed too.         *)
(***************************************************************************)
C10_ListedByFirstMention ==
    phase = "listed" =>
        \A s \in 1..Len(recipe.sections) :
            LET sec == recipe.sections[s]
                firsts == FirstMentions(recipe, sec)
                lines == ListingOfSection(listing, s)
                shown == SelectSeq(grouped[s].ingredients,
                             LAMBDA g :
                                 \E i \in 1..Len(firsts) :
                                     /\ NameAt(recipe, firsts[i]) = g.ingredient.name
                                     /\ recipe.ingredients[firsts[i] + 1].listed)
            IN /\ Len(lines) = Len(shown)
               /\ \A i \in 1..Len(shown) :
                      LET first == CHOOSE x \in Range(firsts) :
                                       NameAt(recipe, x) = shown[i].ingredient.name
                      IN lines[i] =
                             ListedLine(shown[i].ingredient.name,
                                        shown[i].quantity,
                                        recipe.ingredients[first + 1].optional)
               /\ \A g \in Range(grouped[s].ingredients) :
                      IsSumOf(g.quantity,
                              MentionedQuantities(recipe, sec, g.ingredient.name))

\* In the first section a is mentioned by an optional, listed entry of 1 tsp
\* and then by a hidden entry of 2 tsp; in the second by the hidden entry
\* alone.
C10_Witness ==
    /\ phase = "listed"
    /\ recipe.ingredients =
           <<IngredientNew(<<"a">>, None, Some(QuantityNew(1, Tsp)), TRUE, TRUE),
             IngredientNew(<<"a">>, None, Some(QuantityNew(2, Tsp)), FALSE, FALSE)>>
    /\ Mentions(recipe.sections[1]) = <<0, 1>>
    /\ Mentions(recipe.sections[2]) = <<1>>
    /\ listing = <<<<"\\", "ingredient", "{", "3", " ", "tsp", " ", "a", "}",
                     "[", "\\", "BooleanTrue", "]">>,
                   <<"\\", "ingredientsection", "{", "s", "}">>>>
    /\ grouped[2].ingredients[1].quantity = <<QuantityNew(2, Tsp)>>

ReservedChars == {"&", "%", "$", "#"}

(***************************************************************************)
(* C7, as claimed: in the document create_recipe returns, every &, %, $    *)
(* and # stands right after a backslash.                                   *)
(***************************************************************************)
C7_FreeTextSanitized ==
    (phase = "created" /\ created.kind = "ok") =>
        \A i \in 1..Len(created.value) :
            created.value[i] \in ReservedChars =>
                i > 1 /\ created.value[i - 1] = "\\"

LacksRequiredKey(meta) ==
    ~IsSome(meta.title) \/ ~IsSome(meta.description) \/ ~IsSome(meta.servings)

Parsed(env) == env.readable /\ env.utf8 /\ env.parses

(***************************************************************************)
(* C1, as claimed: a file whose recipe lacks title, description or         *)
(* servings fails alone: transpile_collection prints a warning for it and  *)
(* goes on with the next file, and the run is not aborted.                 *)
(***************************************************************************)
C1_MissingKeyIsolated ==
    (/\ IsSome(lastFile)
     /\ Parsed(Unwrap(lastFile).env)
     /\ LacksRequiredKey(Unwrap(lastFile).env.recipe.metadata)) =>
        /\ pc = "files"
        /\ Unwrap(lastFile).result.kind = "err"
        /\ IsSome(warning)
        /\ results[fileIdx] = "err"

\* The relative paths of the files dealt with whose result is Ok.
SucceededPaths(name) ==
    LET ok == SelectSeq([i \in 1..Len(results) |-> i],
                        LAMBDA i : results[i] = "ok")
    IN [i \in 1..Len(ok) |-> RelativePath(name, files[ok[i]])]

\* What transpile_collection returns, whenever it returns.
C4_ReturnedList ==
    /\ pc = "files" =>
           /\ Len(results) = fileIdx
           /\ resultFiles = SucceededPaths(CurrentName)
    /\ (pc = "loop" /\ collIdx > 0) =>
           LET returned == returns[collIdx]
               listed == returned.value # Err("Failed to read collection")
           IN /\ listed => Len(results) = Len(files)
              /\ returned.value.kind = "ok" =>
                     returned.value.value = SucceededPaths(returned.name)
              /\ returned.value.kind = "err" <=>
                     (~listed \/ SucceededPaths(returned.name) = <<>>)

(***************************************************************************)
(* C4, as claimed: transpile_collection deals with every file of the       *)
(* listing in order whatever fails for one of them; it returns the         *)
(* relative paths of the files that succeeded, in listing order, and an    *)
(* error exactly when the listing fails or no file succeeds.               *)
(***************************************************************************)
C4_EveryFileProcessed ==
    /\ pc # "panicked"
    /\ C4_ReturnedList

\* The fragment, read off what transpile_collection returned.
ChapterLine(name) == <<"\\", "chapter", "{", name, "}">>
InputLine(path) == <<"\\", "input", "{">> \o path \o <<"}">>
NewpageLine == <<"\\", "newpage">>

FilesFragment(paths) ==
    [i \in 1..(2 * Len(paths) - 1) |->
        IF i % 2 = 1 THEN InputLine(paths[(i + 1) \div 2]) ELSE NewpageLine]

CollectionFragment(returned) ==
    <<ChapterLine(returned.name)>>
        \o (IF returned.value.kind = "ok"
            THEN FilesFragment(returned.value.value) ELSE <<>>)

Fragment ==
    Concat([i \in 1..Len(returns) |-> CollectionFragment(returns[i])])

(***************************************************************************)
(* C5: whenever main stands between two collections or behind the last,    *)
(* its builder holds, per collection in the order of the arguments, a      *)
(* chapter line and then one input line per file transpile_collection      *)
(* returned, in that order, with a newpage line between two input lines    *)
(* and none after the last; a collection that failed has its chapter line  *)
(* alone.                                                                  *)
(***************************************************************************)
C5_TableOfContents ==
    /\ Len(returns) = collIdx
    /\ \A i \in 1..Len(returns) :
           returns[i].name = collections[i][Len(collections[i])]
    /\ pc \in {"start", "loop", "done", "failed"} => mainLatex = Fragment
    /\ pc = "files" => mainLatex = Fragment \o <<ChapterLine(CurrentName)>>
    /\ (pc = "done" /\ Unwrap(template).value = <<"pre", Placeholder, "post">>) =>
           mainTex = Some(<<"pre">> \o Join(Fragment, "\n") \o <<"post">>)

\* Two files of soups were rendered, mains failed.
C5_Witness ==
    /\ pc = "done"
    /\ collections = <<<<"in", "soups">>, <<"in", "mains">>>>
    /\ returns[2].value.kind = "err"
    /\ mainLatex = <<<<"\\", "chapter", "{", "soups", "}">>,
                     <<"\\", "input", "{", "soups", "/", "r2", ".tex", "}">>,
                     <<"\\", "newpage">>,
                     <<"\\", "input", "{", "soups", "/", "r1", ".tex", "}">>,
                     <<"\\", "chapter", "{", "mains", "}">>>>

Occurrences(text, token) == Cardinality({i \in 1..Len(text) : text[i] = token})

(***************************************************************************)
(* C6, as claimed: replace_in_main_tex puts the fragment in the place of   *)
(* the placeholder of main.tex exactly once, and returns an error, leaving *)
(* main.tex unwritten, when main.tex cannot be read or does not hold the   *)
(* placeholder.                                                            *)
(***************************************************************************)
C6_PlaceholderReplacedOnce ==
    IsSome(mainResult) =>
        LET read == Unwrap(template)
            result == Unwrap(mainResult)
            at == IndexOf(read.value, Placeholder)
        IN /\ read.kind = "err" => (result.kind = "err" /\ mainTex = None)
           /\ (read.kind = "ok" /\ Occurrences(read.value, Placeholder) = 0) =>
                  (result.kind = "err" /\ mainTex = None)
           /\ result.kind = "ok" =>
                  /\ Occurrences(read.value, Placeholder) = 1
                  /\ mainTex = Some(SubSeq(read.value, 1, at - 1)
                                        \o Build(mainLatex)
                                        \o SubSeq(read.value, at + 1,
                                                  Len(read.value)))

=============================================================================
